---- MODULE Spec2Model ----
(***************************************************************************)
(* Document ingestion and parse-completion pipeline of src/src/ragflow_ops.py *)
(* (upload_documents, upload_document_to_dataset, list_documents_in_dataset, *)
(* parse_documents_in_dataset) as a state machine.  The remote store is the  *)
(* environment: every request may succeed or fail, and a status query may    *)
(* report any run status.                                                    *)
(***************************************************************************)
EXTENDS Integers, Sequences, FiniteSets, TLC

\* ------------------------------------------------------------------ bounds
MaxFiles == 2         \* most entries of the folder
MaxDocs == 2          \* longest id list handed directly to parse_documents_in_dataset
MaxRetries == 2       \* largest max_retries (parse_retry_count) tried
MaxPolls == 3         \* status queries per document after which the model stops polling

\* ------------------------------------------------------- status vocabulary
\* The literals the poll loop compares doc.run against.
SuccessStatuses == {"success", "DONE"}
FailureStatuses == {"failed", "error", "FAIL"}
\* Run statuses the store may report that the loop does not recognise.
OtherStatuses == {"RUNNING", "UNSTART"}
RunStatuses == SuccessStatuses \cup FailureStatuses \cup OtherStatuses

\* Shapes of what dataset_object.list_documents may hand back to
\* list_documents_in_dataset: a plain list, an exception, or a Response-like
\* object whose json() gives a dict with 'data', a dict with 'documents',
\* another dict, a list, something else, or raises.
RespKinds == {"list", "raise", "json_data", "json_documents", "json_dict",
              "json_list", "json_other", "json_raise"}

\* The shapes that carry the store's documents.
DocumentLists == {"list", "json_data", "json_documents", "json_list"}

\* The empty document id (falsy in the source).
NoId == ""

\* list_documents_in_dataset: the list the wrapper returns for a store
\* response of shape `kind` carrying the documents `docs`.  Elements taken
\* out of a json body are dicts (form "dict"), elements of a plain list are
\* SDK objects (form "obj"); a dict without 'data'/'documents' is returned
\* whole as a one-element list: it is the first document itself when there is
\* one, and a body without an id otherwise.
AsDicts(docs) == [i \in 1..Len(docs) |-> [docs[i] EXCEPT !.form = "dict"]]

WholeBody(docs) ==
    IF Len(docs) > 0 THEN [docs[1] EXCEPT !.form = "dict"]
    ELSE [form |-> "dict", id |-> NoId, name |-> <<>>, run |-> "body"]

list_documents_in_dataset(dataset_ok, kind, docs) ==
    IF ~dataset_ok THEN <<>>
    ELSE CASE kind = "list"           -> docs
           [] kind = "raise"          -> <<>>
           [] kind = "json_data"      -> AsDicts(docs)
           [] kind = "json_documents" -> AsDicts(docs)
           [] kind = "json_list"      -> AsDicts(docs)
           [] kind = "json_dict"      -> <<WholeBody(docs)>>
           [] kind = "json_other"     -> <<>>
           [] kind = "json_raise"     -> <<>>

\* ------------------------------------------------------------------- state
VARIABLES
    \* arguments and configuration of the call
    entry,               \* the function called: "upload_documents" or "parse_documents_in_dataset"
    dataset_ok,          \* dataset_object is truthy
    folder_ok,           \* os.path.isdir(absolute_folder_path)
    folder,              \* os.listdir(absolute_folder_path), in the order it gives
    duplicate_handling,  \* config['document_upload']['duplicate_handling']
    max_retries,         \* parse_retry_count / max_retries
    arg_doc_ids,         \* doc_ids as handed to parse_documents_in_dataset
    \* the remote store: its documents in creation order, and ids given out
    store,
    next_id,
    \* control
    pc,                  \* the store request the code is about to make
    run_no,              \* 1 in the first call of upload_documents, 2 in a second one
    \* locals of upload_documents
    idx,                 \* position in folder of the file being handled
    processed_count,
    skipped_count,
    replaced_count,
    upload_failed_count, \* failed_count of upload_documents
    uploaded_doc_ids,
    delete_id,           \* doc_id of doc_to_delete (line 246/248)
    \* locals of parse_documents_in_dataset
    doc_ids,             \* the filtered id list (line 340)
    doc_index,           \* position in doc_ids, 1-based
    success_count,
    failed_count,
    failed_status_count,
    parse_completed,
    parse_success,       \* <<>> until parse_documents_in_dataset returns, then <<value>>
    \* what was observed from outside, per position of doc_ids
    hist,
    \* what was observed from outside, per file handled by the folder walk
    fhist,
    \* the store as it was when the current call began, the names whose
    \* submission succeeded in the current call, and those of the first call
    pre_store,
    created,
    first_run

inputs == <<entry, dataset_ok, folder_ok, folder, duplicate_handling,
            max_retries, arg_doc_ids>>
upload_locals == <<idx, processed_count, skipped_count, replaced_count,
                   upload_failed_count, uploaded_doc_ids, delete_id>>
env == <<store, next_id, run_no, fhist, pre_store, created, first_run>>
parse_locals == <<doc_ids, doc_index, success_count, failed_count,
                  failed_status_count, parse_completed, parse_success>>
vars == <<inputs, store, next_id, pc, run_no, upload_locals, parse_locals,
          hist, fhist, pre_store, created, first_run>>

\* Per-document record of the requests made and the reports received.
\*   outcome  PENDING, POLLING, SUCCESS, FAILED, INDETERMINATE, TRIGGER_FAILED
\*   trig     parse-trigger requests issued
\*   n        status queries issued
\*   succ     reports whose status was 'success' or 'DONE'
\*   fail     reports whose status was 'failed', 'error' or 'FAIL'
\*   streak   length of the run of such reports ending at the last one
\*   last     class of the last report: "success", "failure", "other", "none"
\*   sleeps   retry_interval sleeps taken
\*   tid      the id named in the parse-trigger request
\*   qid      the id named in the last status query
NewHist == [outcome |-> "PENDING", trig |-> 0, n |-> 0, succ |-> 0, fail |-> 0,
            streak |-> 0, last |-> "none", sleeps |-> 0, tid |-> NoId,
            qid |-> NoId]

Terminal == {"SUCCESS", "FAILED", "INDETERMINATE", "TRIGGER_FAILED"}

\* What the store reported, as a caller of the SDK sees it: the run status of
\* the first document of a well-formed answer, "none" for an empty answer, an
\* error or an answer of another shape.
Reported(kind, docs) ==
    IF kind = "list" /\ Len(docs) > 0 THEN docs[1].run ELSE "none"

ReportClass(status) ==
    IF status \in {"success", "DONE"} THEN "success"
    ELSE IF status \in {"failed", "error", "FAIL"} THEN "failure"
    ELSE IF status = "none" THEN "none"
    ELSE "other"

\* ------------------------------------------- parse_documents_in_dataset
\* The id list taken as it is.
FilterIds_Keep(ids) == ids

\* Line 340: doc_ids = [str(doc_id) for doc_id in doc_ids if doc_id]
RECURSIVE FilterIds(_)
FilterIds(ids) ==
    IF ids = <<>> THEN <<>>
    ELSE IF Head(ids) # NoId THEN <<Head(ids)>> \o FilterIds(Tail(ids))
    ELSE FilterIds(Tail(ids))

\* A loop condition that lets the counter reach max_retries.
LoopCondition_Inclusive(fsc, completed) == fsc <= max_retries /\ ~completed

\* A loop condition that never holds.
LoopCondition_Never(fsc, completed) == FALSE

\* Line 373: the condition of the poll loop.
LoopCondition(fsc, completed) == fsc < max_retries /\ ~completed

\* A return value that asks for every document to succeed.
ReturnValue_All(sc) == sc >= Len(doc_ids)

\* Line 427: the value returned.
ReturnValue(sc) == sc > 0

\* The success test without 'DONE'.
IsSuccessStatus_LowerOnly(s) == s = "success"

\* Lines 386 and 392: how the loop classifies doc.run.
IsSuccessStatus(s) == s \in SuccessStatuses

IsFailureStatus(s) == s \in FailureStatuses

\* A classification that takes an empty answer for a failure.
Classify_EmptyFails(doc_info) ==
    IF Len(doc_info) = 0 THEN "failure"
    ELSE IF doc_info[1].form # "obj" THEN "exception"
    ELSE IF IsSuccessStatus(doc_info[1].run) THEN "success"
    ELSE IF IsFailureStatus(doc_info[1].run) THEN "failure"
    ELSE "progress"

\* Lines 377-411: one status query and its classification.  Gives what the
\* iteration saw: "success", "failure", "progress", "empty" or "exception"
\* (doc.run on a dict raises, as does the query path inside the try).
Classify(doc_info) ==
    IF Len(doc_info) = 0 THEN "empty"
    ELSE IF doc_info[1].form # "obj" THEN "exception"
    ELSE IF IsSuccessStatus(doc_info[1].run) THEN "success"
    ELSE IF IsFailureStatus(doc_info[1].run) THEN "failure"
    ELSE "progress"

\* A counter of consecutive failures: any other observation resets it.
CountFailure_Consecutive(seen, fsc) == IF seen = "failure" THEN fsc + 1 ELSE 0

\* Lines 392-411: failed_status_count after an iteration that saw `seen`:
\* only a failure status is counted, nothing resets the counter.
CountFailure(seen, fsc) == IF seen = "failure" THEN fsc + 1 ELSE fsc

\* The threshold test off by one.
ThresholdReached_Late(fsc) == fsc > max_retries

\* Line 398: the threshold test after a failure was counted.
ThresholdReached(fsc) == fsc >= max_retries

\* Moving on to the next document of the for loop (line 352), or returning
\* (lines 423-427) when there is none.
NextDocument(sc) ==
    IF doc_index + 1 <= Len(doc_ids)
    THEN /\ doc_index' = doc_index + 1
         /\ pc' = "trigger"
         /\ parse_success' = parse_success
    ELSE /\ doc_index' = doc_index + 1
         /\ pc' = "done"
         /\ parse_success' = <<ReturnValue(sc)>>

\* Lines 330-345: entry checks of parse_documents_in_dataset on `ids`.
EnterParse(ids) ==
    LET filtered == FilterIds(ids) IN
    /\ success_count' = 0
    /\ failed_count' = 0
    /\ failed_status_count' = 0
    /\ parse_completed' = FALSE
    /\ IF ~dataset_ok \/ Len(ids) = 0 \/ Len(filtered) = 0
       THEN /\ doc_ids' = IF ~dataset_ok \/ Len(ids) = 0 THEN ids ELSE filtered
            /\ doc_index' = 0
            /\ hist' = <<>>
            /\ parse_success' = <<FALSE>>
            /\ pc' = "done"
       ELSE /\ doc_ids' = filtered
            /\ doc_index' = 1
            /\ hist' = [k \in 1..Len(filtered) |-> NewHist]
            /\ parse_success' = <<>>
            /\ pc' = "trigger"

\* A direct call of parse_documents_in_dataset.
CallParse ==
    /\ pc = "start"
    /\ entry = "parse_documents_in_dataset"
    /\ EnterParse(arg_doc_ids)
    /\ UNCHANGED <<inputs, env, upload_locals>>

\* A failed trigger that gives up the rest of the batch.
TriggerFailed_Abort(h) ==
    /\ failed_count' = failed_count + 1
    /\ hist' = [hist EXCEPT ![doc_index] = h]
    /\ doc_index' = Len(doc_ids) + 1
    /\ pc' = "done"
    /\ parse_success' = <<ReturnValue(success_count)>>

\* A failed trigger that is not counted.
TriggerFailed_Uncounted(h) ==
    /\ failed_count' = failed_count
    /\ hist' = [hist EXCEPT ![doc_index] = h]
    /\ NextDocument(success_count)

\* Lines 361-364: the trigger request raised; h is the document's record after
\* the request.
TriggerFailed(h) ==
    /\ failed_count' = failed_count + 1
    /\ hist' = [hist EXCEPT ![doc_index] = h]
    /\ NextDocument(success_count)

\* Lines 355-371 and the first test of line 373: the parse-trigger request for
\* doc_ids[doc_index], then the poll loop's locals are reset.
Trigger ==
    /\ pc = "trigger"
    /\ \E ok \in BOOLEAN :
        LET h == hist[doc_index] IN
        IF ~ok
        THEN /\ TriggerFailed([h EXCEPT !.trig = h.trig + 1, !.tid = doc_ids[doc_index],
                                        !.outcome = "TRIGGER_FAILED"])
             /\ UNCHANGED <<success_count, failed_status_count, parse_completed>>
        ELSE /\ failed_status_count' = 0
             /\ parse_completed' = FALSE
             /\ IF LoopCondition(0, FALSE)
                THEN /\ hist' = [hist EXCEPT ![doc_index] =
                                   [h EXCEPT !.trig = h.trig + 1, !.tid = doc_ids[doc_index], !.outcome = "POLLING"]]
                     /\ pc' = "poll"
                     /\ UNCHANGED <<doc_index, parse_success, failed_count>>
                ELSE \* lines 419-421: the loop never ran
                     /\ failed_count' = failed_count + 1
                     /\ hist' = [hist EXCEPT ![doc_index] =
                                   [h EXCEPT !.trig = h.trig + 1, !.tid = doc_ids[doc_index], !.outcome = "INDETERMINATE"]]
                     /\ NextDocument(success_count)
             /\ UNCHANGED success_count
    /\ UNCHANGED <<inputs, env, upload_locals, doc_ids>>

\* A break out of the poll loop that leaves the document unfinished.
KeepPolling_Break(h) ==
    /\ hist' = [hist EXCEPT ![doc_index] = h]
    /\ failed_count' = failed_count
    /\ NextDocument(success_count)

\* The counters of a document's record stop at MaxPolls.
Bump(x) == IF x < MaxPolls THEN x + 1 ELSE x

\* A poll loop that triggers the parse again after a failure report.
KeepPolling_Retrigger(h) ==
    /\ hist' = [hist EXCEPT ![doc_index] = [h EXCEPT !.sleeps = Bump(h.sleeps)]]
    /\ pc' = IF h.last = "failure" THEN "trigger" ELSE pc
    /\ UNCHANGED <<doc_index, parse_success, failed_count>>

\* A poll loop that gives a document up after its second status query.
KeepPolling_Capped(h) ==
    IF h.n >= 2
    THEN /\ failed_count' = failed_count + 1
         /\ hist' = [hist EXCEPT ![doc_index] = [h EXCEPT !.outcome = "INDETERMINATE"]]
         /\ NextDocument(success_count)
    ELSE /\ hist' = [hist EXCEPT ![doc_index] = [h EXCEPT !.sleeps = Bump(h.sleeps)]]
         /\ UNCHANGED <<pc, doc_index, parse_success, failed_count>>

\* Lines 414-416 and 373: the document is not done and the loop goes on, after
\* a sleep, with the same document; h is its record after the query.
KeepPolling(h) ==
    /\ hist' = [hist EXCEPT ![doc_index] = [h EXCEPT !.sleeps = Bump(h.sleeps)]]
    /\ UNCHANGED <<pc, doc_index, parse_success, failed_count>>

\* What a status query may be answered with: a plain list holding the document
\* with any run status, or nothing; or an answer of another shape, holding a
\* finished document.
StatusAnswers ==
    ({"list"} \X (RunStatuses \cup {"absent"}))
        \cup ((RespKinds \ {"list"}) \X {"DONE"})

\* Lines 374-421: one iteration of the poll loop for doc_ids[doc_index]: the
\* status query, its classification, the sleep, and the loop test that follows.
PollBody ==
    /\ \E ans \in StatusAnswers :
        LET kind     == ans[1]
            status   == ans[2]
            docs     == IF status = "absent" THEN <<>>
                        ELSE <<[form |-> "obj", id |-> doc_ids[doc_index],
                                name |-> <<>>, run |-> status]>>
            doc_info == list_documents_in_dataset(dataset_ok, kind, docs)
            seen     == Classify(doc_info)
            rep      == ReportClass(Reported(kind, docs))
            h        == hist[doc_index]
            h1       == [h EXCEPT !.n = Bump(h.n),
                                  !.qid = doc_ids[doc_index],
                                  !.succ = IF rep = "success" THEN h.succ + 1 ELSE h.succ,
                                  !.fail = IF rep = "failure" THEN h.fail + 1 ELSE h.fail,
                                  !.streak = IF rep = "failure" THEN Bump(h.streak) ELSE 0,
                                  !.last = rep]
            fsc      == CountFailure(seen, failed_status_count)
        IN
        /\ failed_status_count' = fsc
        /\ IF seen = "success"
           THEN \* lines 387-391
                /\ parse_completed' = TRUE
                /\ success_count' = success_count + 1
                /\ failed_count' = failed_count
                /\ hist' = [hist EXCEPT ![doc_index] = [h1 EXCEPT !.outcome = "SUCCESS"]]
                /\ NextDocument(success_count + 1)
           ELSE IF seen = "failure" /\ ThresholdReached(fsc)
           THEN \* lines 398-402
                /\ parse_completed' = TRUE
                /\ failed_count' = failed_count + 1
                /\ success_count' = success_count
                /\ hist' = [hist EXCEPT ![doc_index] = [h1 EXCEPT !.outcome = "FAILED"]]
                /\ NextDocument(success_count)
           ELSE \* lines 414-416, then line 373 again
                /\ parse_completed' = FALSE
                /\ success_count' = success_count
                /\ IF LoopCondition(fsc, FALSE)
                   THEN KeepPolling(h1)
                   ELSE \* lines 419-421
                        /\ failed_count' = failed_count + 1
                        /\ hist' = [hist EXCEPT ![doc_index] =
                                      [h1 EXCEPT !.sleeps = Bump(h1.sleeps),
                                                 !.outcome = "INDETERMINATE"]]
                        /\ NextDocument(success_count)
    /\ UNCHANGED <<inputs, env, upload_locals, doc_ids>>

\* The poll loop followed for at most MaxPolls status queries per document.
Poll ==
    /\ pc = "poll"
    /\ hist[doc_index].n < MaxPolls
    /\ PollBody

\* The poll loop followed for as long as it runs; the record of the document
\* stops counting at MaxPolls.
PollUnbounded ==
    /\ pc = "poll"
    /\ PollBody

\* ------------------------------------------------------ files and store
\* A file name is its characters up to the extension, then the extension.
NameA == <<"a", ".pdf">>

NameXA == <<"x", "a", ".pdf">>

NameN == <<"n", ".exe">>

NameD == <<"d", ".PDF">>

\* What os.listdir may hold: two files with an allowed extension (the name of
\* the first is contained in the name of the second), a file with another
\* extension, and a directory whose name ends in an allowed extension.
Entries == {[name |-> NameA, isfile |-> TRUE], [name |-> NameXA, isfile |-> TRUE],
            [name |-> NameN, isfile |-> TRUE], [name |-> NameD, isfile |-> FALSE]}

\* Line 166: the default of allowed_extensions, which main.py passes too.
allowed_extensions == {".txt", ".pdf", ".md", ".docx", ".doc"}

\* str.lower() on the characters of the names above.
Lower(c) == IF c = ".PDF" THEN ".pdf" ELSE c

\* Lines 213-215: the file filter of the folder walk.
Eligible(e) == Lower(e.name[Len(e.name)]) \in allowed_extensions /\ e.isfile

\* The store's keyword search: a document matches when the keyword occurs in
\* its name.
Contains(name, kw) ==
    \E o \in 0..(Len(name) - Len(kw)) :
        \A i \in 1..Len(kw) : name[o + i] = kw[i]

Matching(st, kw) == SelectSeq(st, LAMBDA d : Contains(d.name, kw))

\* The store answers in an order of its own choosing.
Orders(st) ==
    {[i \in 1..Len(st) |-> st[p[i]]] : p \in Permutations(1..Len(st))}

\* A stored document as the SDK object the store hands out.
AsObjects(st) ==
    [i \in 1..Len(st) |-> [form |-> "obj", id |-> st[i].id,
                           name |-> st[i].name, run |-> "UNSTART"]]

\* Ids the store gives to new documents, in this order.
IdPool == <<"d1", "d2", "d3", "d4", "d5", "d6", "d7", "d8", "d9">>

\* Document.delete() on the store.
Remove(st, id) == SelectSeq(st, LAMBDA d : d.id # id)

\* ------------------------------------------- upload_document_to_dataset
\* Lines 136-157: the id taken from the lookup after a successful submission.
RECURSIVE FirstExact(_, _)
FirstExact(docs, file_name) ==
    IF docs = <<>> THEN NoId
    ELSE IF Head(docs).name = file_name THEN Head(docs).id
    ELSE FirstExact(Tail(docs), file_name)

\* A lookup that always takes the first result.
LookupId_FirstOnly(lookup_raises, docs, file_name) ==
    IF lookup_raises \/ Len(docs) = 0 THEN NoId ELSE docs[1].id

LookupId(lookup_raises, docs, file_name) ==
    IF lookup_raises \/ Len(docs) = 0 THEN NoId
    ELSE IF FirstExact(docs, file_name) # NoId THEN FirstExact(docs, file_name)
    ELSE docs[1].id

\* Lines 115-126: what the body of the try raises: OSError when the file
\* cannot be opened or read, the SDK's Exception when the store rejects the
\* submission, nothing otherwise.
Raised(file_state, submit_ok) ==
    IF file_state = "unreadable" THEN "OSError"
    ELSE IF ~submit_ok THEN "Exception"
    ELSE "none"

\* A handler for errors of the file system only.
Caught_OSErrorOnly(exc) == exc = "OSError"

\* Line 160: except Exception catches both.
Caught(exc) == exc \in {"OSError", "Exception"}

\* Lines 105-162: (success, doc_id) for the state of the local file, the
\* outcome of the submission and the answer of the lookup; raised tells
\* whether an exception left the function instead.
upload_document_to_dataset(ds_ok, file_state, submit_ok, lookup_raises, docs, file_name) ==
    IF ~ds_ok THEN [success |-> FALSE, doc_id |-> NoId, raised |-> FALSE]
    ELSE IF file_state = "missing"
    THEN [success |-> FALSE, doc_id |-> NoId, raised |-> FALSE]
    ELSE IF Raised(file_state, submit_ok) # "none"
    THEN [success |-> FALSE, doc_id |-> NoId,
          raised |-> ~Caught(Raised(file_state, submit_ok))]
    ELSE [success |-> TRUE, doc_id |-> LookupId(lookup_raises, docs, file_name),
          raised |-> FALSE]

\* The store creates a document when a readable file is submitted to a valid
\* dataset and the submission is accepted.
Made(file_state, submit_ok) == dataset_ok /\ file_state = "ok" /\ submit_ok

StoreAfter(name, file_state, submit_ok) ==
    IF Made(file_state, submit_ok)
    THEN Append(store, [id |-> IdPool[next_id + 1], name |-> name])
    ELSE store

\* Why a call of upload_document_to_dataset could not succeed, if so.
Cause(file_state, submit_ok) ==
    IF ~dataset_ok THEN "dataset"
    ELSE IF file_state = "missing" THEN "missing"
    ELSE IF file_state = "unreadable" THEN "unreadable"
    ELSE IF ~submit_ok THEN "rejected"
    ELSE "none"

\* The store requests a call of upload_document_to_dataset makes.
Requests(file_state, submit_ok) ==
    IF file_state = "ok" /\ dataset_ok
    THEN IF submit_ok THEN <<"upload", "lookup">> ELSE <<"upload">>
    ELSE <<>>

\* ------------------------------------------------------ upload_documents
\* Per-file record of the requests made for it, in order ("query", "delete",
\* "upload" for the submission, "lookup"), and of what came back.
\*   answered the existence query was answered with a list of documents
\*   nmatch   documents the store's answer to the existence query carried
\*   listed   length of the list list_documents_in_dataset made of it
\*   first_id id of the first document the answer carried
\*   del_id   id the delete request named
\*   created  the store created a document for the file
\*   new_id   the id the store gave it
\*   ret_id   the doc_id upload_document_to_dataset returned
\*   slot     position of ret_id in uploaded_doc_ids, 0 if not appended
\*   qfail    the existence query failed: an error or a malformed answer
\*   del_ok   the delete request was made and succeeded
\*   cause    why upload_document_to_dataset could not succeed
\*   raised   an exception left upload_document_to_dataset
\*   stored   documents of the dataset matching the name when it was queried
\*   lookup   the documents the lookup after the submission answered with
\*   lk_fail  that lookup raised
NewFile(name) == [name |-> name, seq |-> <<>>, answered |-> FALSE,
                  nmatch |-> 0, listed |-> 0, first_id |-> NoId,
                  skipped |-> FALSE, del_id |-> NoId, attempted |-> FALSE,
                  success |-> FALSE, created |-> FALSE, new_id |-> NoId,
                  ret_id |-> NoId, slot |-> 0, qfail |-> FALSE,
                  del_ok |-> FALSE, cause |-> "none", raised |-> FALSE,
                  stored |-> 0, lookup |-> <<>>, lk_fail |-> FALSE]

\* The record of a file after upload_document_to_dataset returned r for it;
\* slot is where its id went in uploaded_doc_ids.
Recorded(f, file_state, submit_ok, r, slot, lookup_raises, docs) ==
    [f EXCEPT !.lookup = IF Made(file_state, submit_ok) /\ ~lookup_raises
                         THEN docs ELSE <<>>,
              !.lk_fail = Made(file_state, submit_ok) /\ lookup_raises,
              !.seq = f.seq \o Requests(file_state, submit_ok),
              !.attempted = TRUE,
              !.success = r.success,
              !.created = Made(file_state, submit_ok),
              !.new_id = IF Made(file_state, submit_ok)
                         THEN IdPool[next_id + 1] ELSE NoId,
              !.ret_id = r.doc_id,
              !.slot = slot,
              !.cause = Cause(file_state, submit_ok),
              !.raised = r.raised]

RECURSIVE NextEligible(_)
NextEligible(i) ==
    IF i > Len(folder) THEN i
    ELSE IF Eligible(folder[i]) THEN i
    ELSE NextEligible(i + 1)

\* The existence query made under every policy.
QueriesFirst_Always == TRUE

\* Line 220: is the existence query made for a file?
QueriesFirst == duplicate_handling # "allow"

\* A walk that ends at the first file whose upload failed.
Continue_AbortOnFailure(i, fh, ids) ==
    LET j == IF fh[Len(fh)].attempted /\ ~fh[Len(fh)].success
             THEN Len(folder) + 1 ELSE NextEligible(i + 1) IN
    /\ idx' = j
    /\ IF j <= Len(folder)
       THEN /\ processed_count' = processed_count + 1
            /\ fhist' = Append(fh, NewFile(folder[j].name))
            /\ pc' = IF QueriesFirst THEN "query" ELSE "upload"
            /\ UNCHANGED <<parse_locals, hist>>
       ELSE /\ processed_count' = processed_count
            /\ fhist' = fh
            /\ pc' = "walked"
            /\ UNCHANGED <<parse_locals, hist>>

\* A walk that hands each uploaded file to the parse stage at once.
Continue_PerFile(i, fh, ids) ==
    /\ idx' = i
    /\ processed_count' = processed_count
    /\ fhist' = fh
    /\ pc' = "walked"
    /\ UNCHANGED <<parse_locals, hist>>

\* Lines 212-216: on to the next eligible entry of the folder after position
\* i; fh and ids are fhist and uploaded_doc_ids as the current file leaves them.
Continue(i, fh, ids) ==
    LET j == NextEligible(i + 1) IN
    /\ idx' = j
    /\ IF j <= Len(folder)
       THEN /\ processed_count' = processed_count + 1
            /\ fhist' = Append(fh, NewFile(folder[j].name))
            /\ pc' = IF QueriesFirst THEN "query" ELSE "upload"
            /\ UNCHANGED <<parse_locals, hist>>
       ELSE \* line 286: the walk is over and its counts are logged
            /\ processed_count' = processed_count
            /\ fhist' = fh
            /\ pc' = "walked"
            /\ UNCHANGED <<parse_locals, hist>>

\* An entry check that looks at the folder only.
EntryOk_FolderOnly == folder_ok

\* Lines 178-186: the dataset reference is valid and the folder exists.
EntryOk == dataset_ok /\ folder_ok

\* Lines 178-216: entry of upload_documents up to its first store request.
EnterUpload ==
    /\ skipped_count' = 0
    /\ replaced_count' = 0
    /\ upload_failed_count' = 0
    /\ uploaded_doc_ids' = <<>>
    /\ delete_id' = NoId
    /\ IF ~EntryOk
       THEN /\ pc' = "done"
            /\ idx' = 0
            /\ processed_count' = 0
            /\ fhist' = <<>>
       ELSE /\ idx' = NextEligible(1)
            /\ IF NextEligible(1) <= Len(folder)
               THEN /\ processed_count' = 1
                    /\ fhist' = <<NewFile(folder[NextEligible(1)].name)>>
                    /\ pc' = IF QueriesFirst THEN "query" ELSE "upload"
               ELSE /\ processed_count' = 0
                    /\ fhist' = <<>>
                    /\ pc' = "walked"

CallUpload ==
    /\ pc = "start"
    /\ entry = "upload_documents"
    /\ EnterUpload
    /\ UNCHANGED <<inputs, store, next_id, run_no, pre_store, created, first_run,
                   parse_locals, hist>>

\* Lines 289-312: after the walk, parse what was uploaded, if anything, and
\* return.  The per-file record of the walk ends here.
AfterWalk ==
    /\ pc = "walked"
    /\ fhist' = <<>>
    /\ IF Len(uploaded_doc_ids) > 0
       THEN EnterParse(uploaded_doc_ids)
       ELSE /\ pc' = "done"
            /\ UNCHANGED <<parse_locals, hist>>
    /\ UNCHANGED <<inputs, store, next_id, run_no, pre_store, created, first_run,
                   upload_locals>>

\* A second call of upload_documents on the same folder, dataset and
\* configuration, after the first has returned.
Rerun ==
    /\ pc = "done"
    /\ entry = "upload_documents"
    /\ run_no = 1
    /\ run_no' = 2
    /\ pre_store' = store
    /\ first_run' = created
    /\ created' = {}
    /\ doc_ids' = <<>>
    /\ doc_index' = 0
    /\ success_count' = 0
    /\ failed_count' = 0
    /\ failed_status_count' = 0
    /\ parse_completed' = FALSE
    /\ parse_success' = <<>>
    /\ hist' = <<>>
    /\ EnterUpload
    /\ UNCHANGED <<inputs, store, next_id>>

\* Line 246/248: the id of doc_to_delete, None when it has none.
DocIdOf(d) == d.id

\* A decision that replaces under every policy but allow.
Resolve_AlwaysReplace(existing) ==
    IF Len(existing) > 0 /\ duplicate_handling # "allow" THEN "REPLACE"
    ELSE "ALLOW"

\* A decision that takes an unknown policy for skip_name.
Resolve_DefaultSkip(existing) ==
    IF Len(existing) > 0 /\ duplicate_handling # "replace" THEN "SKIP"
    ELSE IF Len(existing) > 0 THEN "REPLACE"
    ELSE "ALLOW"

\* A decision that knows 'skip_name' only.
Resolve_NameOnly(existing) ==
    IF Len(existing) > 0 /\ duplicate_handling = "skip_name" THEN "SKIP"
    ELSE IF Len(existing) > 0 /\ duplicate_handling = "replace" THEN "REPLACE"
    ELSE "ALLOW"

\* A decision that takes a single match for none.
Resolve_OffByOne(existing) ==
    IF Len(existing) > 1 /\ duplicate_handling \in {"skip_name", "skip_content"}
    THEN "SKIP"
    ELSE IF Len(existing) > 1 /\ duplicate_handling = "replace"
    THEN "REPLACE"
    ELSE "ALLOW"

\* Lines 228-232: what the walk does with the answer to the existence query.
Resolve(existing) ==
    IF Len(existing) > 0 /\ duplicate_handling \in {"skip_name", "skip_content"}
    THEN "SKIP"
    ELSE IF Len(existing) > 0 /\ duplicate_handling = "replace"
    THEN "REPLACE"
    ELSE "ALLOW"

\* The documents an answer of shape `kind` carries out of `docs`.
Carried(kind, docs) ==
    IF kind \in DocumentLists THEN docs
    ELSE IF kind = "json_dict" /\ Len(docs) > 0 THEN <<docs[1]>>
    ELSE <<>>

\* The query failed: the store raised, or its answer was not one that holds
\* documents.
QueryFailed(kind, docs) ==
    kind \notin DocumentLists /\ Len(Carried(kind, docs)) = 0

\* A decision made on the documents the dataset held when the call began.
QueriedStore_Snapshot == pre_store

\* Line 225: the existence query is sent to the store for each file (the
\* dictionaries of lines 203-205 are never filled), so it is answered from
\* what the dataset holds at that moment.
QueriedStore == store

\* Lines 221-263: the existence query for folder[idx] and the decision.
Query ==
    /\ pc = "query"
    /\ \E kind \in RespKinds, docs \in Orders(Matching(QueriedStore, folder[idx].name)) :
        LET existing == list_documents_in_dataset(dataset_ok, kind, AsObjects(docs))
            decision == Resolve(existing)
            f        == fhist[Len(fhist)]
            f1       == [f EXCEPT !.seq = Append(f.seq, "query"),
                                  !.answered = kind \in DocumentLists,
                                  !.listed = Len(existing),
                                  !.first_id = IF Len(Carried(kind, docs)) > 0
                                               THEN Carried(kind, docs)[1].id ELSE NoId,
                                  !.nmatch = Len(Carried(kind, docs)),
                                  !.qfail = QueryFailed(kind, docs),
                                  !.stored = Len(Matching(store, folder[idx].name))]
        IN
        CASE decision = "SKIP" ->
               /\ skipped_count' = skipped_count + 1
               /\ Continue(idx, [fhist EXCEPT ![Len(fhist)] = [f1 EXCEPT !.skipped = TRUE]],
                           uploaded_doc_ids)
               /\ UNCHANGED <<replaced_count, delete_id>>
          [] decision = "REPLACE" ->
               /\ replaced_count' = replaced_count + 1
               /\ skipped_count' = skipped_count
               /\ delete_id' = DocIdOf(existing[1])
               /\ pc' = IF DocIdOf(existing[1]) # NoId THEN "delete" ELSE "upload"
               /\ fhist' = [fhist EXCEPT ![Len(fhist)] = f1]
               /\ UNCHANGED <<idx, processed_count, parse_locals, hist>>
          [] decision = "ALLOW" ->
               /\ pc' = "upload"
               /\ fhist' = [fhist EXCEPT ![Len(fhist)] = f1]
               /\ UNCHANGED <<skipped_count, replaced_count, delete_id,
                              idx, processed_count, parse_locals, hist>>
    /\ UNCHANGED <<inputs, store, next_id, run_no, pre_store, created, first_run,
                   upload_failed_count, uploaded_doc_ids>>

\* A replace that gives the file up when the delete failed.
AfterDelete_GiveUp(ok) == IF ok THEN "upload" ELSE "walked"

\* Lines 257-265: whether the delete succeeded or raised, the upload of the
\* file comes next.
AfterDelete(ok) == "upload"

\* Lines 252-259: the delete request for doc_to_delete.
Delete ==
    /\ pc = "delete"
    /\ \E ok \in BOOLEAN :
        LET f == fhist[Len(fhist)] IN
        /\ store' = IF ok THEN Remove(store, delete_id) ELSE store
        /\ fhist' = [fhist EXCEPT ![Len(fhist)] =
                       [f EXCEPT !.seq = Append(f.seq, "delete"),
                                 !.del_id = delete_id, !.del_ok = ok]]
        /\ pc' = AfterDelete(ok)
    /\ UNCHANGED <<inputs, next_id, run_no, pre_store, created, first_run,
                   upload_locals, parse_locals, hist>>

\* An id list that takes every id a successful upload returns.
Accepted_Any(r) == r.success

\* Lines 271-275: the id of an upload goes into uploaded_doc_ids when the
\* upload succeeded and the id is not empty.
Accepted(r) == r.success /\ r.doc_id # NoId

\* Lines 267-282: upload_document_to_dataset for folder[idx], and the
\* bookkeeping of its result.
Upload ==
    /\ pc = "upload"
    /\ next_id < Len(IdPool)
    /\ \E file_state \in {"ok", "missing", "unreadable"}, submit_ok \in BOOLEAN,
          mode \in {"fresh", "stale", "raise"} :
        LET name    == folder[idx].name
            store1  == StoreAfter(name, file_state, submit_ok)
            visible == IF mode = "fresh" THEN store1 ELSE store
        IN
        \E docs \in Orders(Matching(visible, name)) :
            LET r   == upload_document_to_dataset(dataset_ok, file_state, submit_ok,
                                                  mode = "raise", AsObjects(docs), name)
                ids == IF Accepted(r) THEN Append(uploaded_doc_ids, r.doc_id)
                       ELSE uploaded_doc_ids
                f1  == Recorded(fhist[Len(fhist)], file_state, submit_ok, r,
                                IF Accepted(r) THEN Len(uploaded_doc_ids) + 1 ELSE 0,
                                mode = "raise", docs)
            IN
            /\ store' = store1
            /\ created' = IF Made(file_state, submit_ok)
                           THEN created \cup {name} ELSE created
            /\ next_id' = IF Made(file_state, submit_ok) THEN next_id + 1 ELSE next_id
            /\ uploaded_doc_ids' = ids
            /\ upload_failed_count' = IF r.success THEN upload_failed_count
                                      ELSE upload_failed_count + 1
            /\ Continue(idx, [fhist EXCEPT ![Len(fhist)] = f1], ids)
    /\ UNCHANGED <<inputs, run_no, pre_store, first_run, skipped_count,
                   replaced_count, delete_id>>

\* A direct call of upload_document_to_dataset for the file folder[1].
CallUploadOne ==
    /\ pc = "start"
    /\ entry = "upload_document_to_dataset"
    /\ \E file_state \in {"ok", "missing", "unreadable"}, submit_ok \in BOOLEAN,
          mode \in {"fresh", "stale", "raise"} :
        LET name    == folder[1].name
            store1  == StoreAfter(name, file_state, submit_ok)
            visible == IF mode = "fresh" THEN store1 ELSE store
        IN
        \E docs \in Orders(Matching(visible, name)) :
            LET r == upload_document_to_dataset(dataset_ok, file_state, submit_ok,
                                                mode = "raise", AsObjects(docs), name)
            IN
            /\ store' = store1
            /\ created' = IF Made(file_state, submit_ok)
                           THEN created \cup {name} ELSE created
            /\ next_id' = IF Made(file_state, submit_ok) THEN next_id + 1 ELSE next_id
            /\ fhist' = <<Recorded(NewFile(name), file_state, submit_ok, r, 0,
                                    mode = "raise", docs)>>
    /\ pc' = "done"
    /\ UNCHANGED <<inputs, run_no, pre_store, first_run, upload_locals,
                   parse_locals, hist>>

\* ---------------------------------------------------------- specification
IdLists == UNION {[1..n -> {NoId, "d1", "d2"}] : n \in 0..MaxDocs}

\* A direct call of parse_documents_in_dataset; max_retries may be negative or
\* zero as well.
InitParse ==
    /\ entry = "parse_documents_in_dataset"
    /\ dataset_ok \in BOOLEAN
    /\ folder_ok = FALSE
    /\ folder = <<>>
    /\ duplicate_handling = "skip_name"
    /\ arg_doc_ids \in IdLists
    /\ store = <<>>
    /\ next_id = 0
    /\ max_retries \in (-1)..MaxRetries

Policies == {"skip_name", "skip_content", "replace", "allow", "overwrite"}

Folders ==
    {f \in UNION {[1..n -> Entries] : n \in 0..MaxFiles} :
        \A i, j \in 1..Len(f) : i # j => f[i] # f[j]}

\* What the dataset may hold before the first call: nothing, or a document
\* named like one of the files.
PreStores == {<<>>, <<[id |-> "d1", name |-> NameA]>>}

\* Values of parse_retry_count tried in a call of upload_documents.
PipelineRetries == {0, 1}

InitUpload ==
    /\ entry = "upload_documents"
    /\ dataset_ok \in BOOLEAN
    /\ folder_ok \in BOOLEAN
    /\ folder \in (IF folder_ok THEN Folders ELSE {<<>>})
    /\ duplicate_handling \in Policies
    /\ arg_doc_ids = <<>>
    /\ store \in (IF dataset_ok THEN PreStores ELSE {<<>>})
    /\ next_id = Len(store)
    /\ max_retries \in PipelineRetries

Rest ==
    /\ pc = "start"
    /\ run_no = 1
    /\ idx = 0
    /\ processed_count = 0
    /\ skipped_count = 0
    /\ replaced_count = 0
    /\ upload_failed_count = 0
    /\ uploaded_doc_ids = <<>>
    /\ delete_id = NoId
    /\ fhist = <<>>
    /\ pre_store = store
    /\ created = {}
    /\ first_run = {}
    /\ doc_ids = <<>>
    /\ doc_index = 0
    /\ success_count = 0
    /\ failed_count = 0
    /\ failed_status_count = 0
    /\ parse_completed = FALSE
    /\ parse_success = <<>>
    /\ hist = <<>>

\* A direct call of upload_document_to_dataset: one file with an allowed
\* extension, any dataset reference.
InitOne ==
    /\ entry = "upload_document_to_dataset"
    /\ dataset_ok \in BOOLEAN
    /\ folder_ok = TRUE
    /\ folder \in {<<e>> : e \in {x \in Entries : Eligible(x)}}
    /\ duplicate_handling = "allow"
    /\ arg_doc_ids = <<>>
    /\ store \in (IF dataset_ok THEN PreStores ELSE {<<>>})
    /\ next_id = Len(store)
    /\ max_retries = 0

Init == (InitParse \/ InitUpload \/ InitOne) /\ Rest

Next ==
    \/ CallParse
    \/ CallUpload
    \/ CallUploadOne
    \/ Query
    \/ Delete
    \/ Upload
    \/ AfterWalk
    \/ Trigger
    \/ Poll

Spec == Init /\ [][Next]_vars

\* Two calls of upload_documents in a row, on the same folder and dataset,
\* with parse_retry_count 0: the poll loop is never entered.
InitTwice == InitUpload /\ Rest /\ dataset_ok /\ folder_ok /\ max_retries = 0

NextTwice ==
    \/ CallUpload
    \/ Rerun
    \/ Query
    \/ Delete
    \/ Upload
    \/ AfterWalk
    \/ Trigger

SpecTwice == InitTwice /\ [][NextTwice]_vars

\* A call of parse_documents_in_dataset that runs for as long as the code
\* does: the process is not stopped from outside, so a step that can be taken
\* is taken.
InitLive == InitParse /\ Rest

NextLive ==
    \/ CallParse
    \/ Trigger
    \/ PollUnbounded

SpecLive == InitLive /\ [][NextLive]_vars /\ WF_vars(NextLive)

\* ------------------------------------------------------------ properties
Docs == DOMAIN hist

Files == DOMAIN fhist

PollingDocs == {k \in Docs : hist[k].outcome = "POLLING"}

InWalk == pc \in {"query", "delete", "upload", "walked"}

EligibleCount == Cardinality({i \in 1..Len(folder) : Eligible(folder[i])})

Has(seq, x) == \E i \in 1..Len(seq) : seq[i] = x

\* C1: a document is declared FAILED exactly at the status query whose report
\* brings the number of 'failed'/'error'/'FAIL' reports for that document to
\* max_retries: never with fewer (so reports counted for an earlier document
\* are not carried over), and never is a document with that many still being
\* polled or given another outcome, whatever else was reported in between.
C1_FailedExactlyAtThreshold ==
    \A k \in Docs :
        /\ hist[k].outcome = "FAILED" =>
              hist[k].fail = max_retries /\ hist[k].last = "failure"
        /\ (hist[k].n > 0 /\ hist[k].fail >= max_retries) =>
              hist[k].outcome = "FAILED"

\* Two documents: the first reported a failure and then succeeded, the second
\* failed at its second failure report with another report in between.
C1_Witness ==
    /\ Len(hist) = 2
    /\ max_retries = 2
    /\ hist[1].outcome = "SUCCESS" /\ hist[1].fail = 1
    /\ hist[2].outcome = "FAILED" /\ hist[2].n = 3

\* C2: the first 'success'/'DONE' report ends the polling of the document at
\* once with outcome SUCCESS: it is the last report, the only success report,
\* no sleep follows it, and the loop has moved on from the document.
C2_SuccessShortCircuit ==
    \A k \in Docs :
        hist[k].succ > 0 =>
            /\ hist[k].outcome = "SUCCESS"
            /\ hist[k].succ = 1
            /\ hist[k].last = "success"
            /\ hist[k].sleeps = hist[k].n - 1
            /\ doc_index > k

\* A success after an earlier failure report, with max_retries 2.
C2_Witness ==
    \E k \in Docs :
        /\ hist[k].outcome = "SUCCESS"
        /\ hist[k].fail = 1
        /\ hist[k].n >= 2
        /\ max_retries = 2

\* C3 as stated: whenever a document is FAILED, its last max_retries reports
\* were all failure reports.
C3_Original ==
    \A k \in Docs :
        hist[k].outcome = "FAILED" => hist[k].streak >= max_retries

\* C3 amended: FAILED is declared on a failure report that brings the total
\* of failure reports to max_retries, consecutive or not; while a document is
\* polled the counter holds all its failure reports, also those followed by
\* another report.
C3_TotalNotConsecutive ==
    \A k \in Docs :
        /\ hist[k].outcome = "FAILED" =>
              /\ hist[k].fail = max_retries
              /\ hist[k].streak >= 1
              /\ hist[k].streak <= hist[k].fail
        /\ (hist[k].outcome = "POLLING" /\ k = doc_index) =>
              /\ failed_status_count = hist[k].fail
              /\ hist[k].streak <= failed_status_count

\* FAILED after failure, another report, failure.
C3_Witness ==
    \E k \in Docs :
        /\ hist[k].outcome = "FAILED"
        /\ hist[k].streak = 1
        /\ hist[k].fail = 2

\* C4: a parse trigger is issued for a document only when every document
\* before it in the batch has reached a terminal outcome, and at most one
\* document is between its trigger and its terminal outcome.
C4_SequentialTrigger ==
    /\ \A k \in Docs :
          hist[k].trig > 0 => \A j \in 1..(k - 1) : hist[j].outcome \in Terminal
    /\ Cardinality(PollingDocs) <= 1
    /\ \A k \in PollingDocs : k = doc_index /\ hist[k].trig = 1

\* The second document is triggered after the first was polled more than once.
C4_Witness ==
    /\ Len(hist) = 2
    /\ hist[2].trig = 1
    /\ hist[1].n >= 2
    /\ hist[1].outcome \in Terminal

\* C5 as stated: the upload of a file begins only when the documents of the
\* files uploaded before it have been triggered and polled to a terminal
\* outcome.
C5_Original ==
    \A i \in Files :
        fhist[i].attempted =>
            \A j \in 1..(i - 1) :
                fhist[j].slot > 0 =>
                    /\ fhist[j].slot <= Len(hist)
                    /\ hist[fhist[j].slot].outcome \in Terminal

\* C5 amended: upload_documents works in two phases.  When the first parse
\* trigger is issued the folder walk is over: every eligible file has been
\* handled, the batch to parse is the whole list of uploaded ids, and no
\* existence query, delete or upload follows; the documents are then
\* triggered and polled one at a time.
C5_UploadAllThenParse ==
    (entry = "upload_documents" /\ Len(hist) > 0) =>
        /\ pc \in {"trigger", "poll", "done"}
        /\ idx > Len(folder)
        /\ processed_count = EligibleCount
        /\ doc_ids = uploaded_doc_ids
        /\ Cardinality(PollingDocs) <= 1

\* Two files were uploaded, and the first document is being polled.
C5_Witness ==
    /\ entry = "upload_documents"
    /\ Len(hist) = 2
    /\ hist[1].outcome = "POLLING"
    /\ hist[2].outcome = "PENDING"

\* C6: the value parse_documents_in_dataset returns is true exactly when a
\* document of the batch reached SUCCESS.
C6_TrueIffSomeSuccess ==
    parse_success # <<>> =>
        (parse_success = <<TRUE>> <=> \E k \in Docs : hist[k].outcome = "SUCCESS")

\* A batch with one SUCCESS and one FAILED returns true.
C6_Witness ==
    /\ pc = "done"
    /\ parse_success = <<TRUE>>
    /\ \E k \in Docs : hist[k].outcome = "FAILED"
    /\ \E k \in Docs : hist[k].outcome = "SUCCESS"

\* C7: when the walk yields no document id, upload_documents ends without a
\* parse trigger or a status query and without a parse success; and
\* parse_documents_in_dataset called with no non-empty id returns false
\* without a request to the store.
C7_EmptyBatch ==
    /\ (entry = "upload_documents" /\ pc = "done" /\ uploaded_doc_ids = <<>>) =>
          /\ \A k \in Docs : hist[k].trig = 0 /\ hist[k].n = 0
          /\ parse_success # <<TRUE>>
    /\ (entry = "parse_documents_in_dataset" /\ pc # "start"
            /\ \A i \in 1..Len(arg_doc_ids) : arg_doc_ids[i] = NoId) =>
          /\ pc = "done"
          /\ parse_success = <<FALSE>>
          /\ \A k \in Docs : hist[k].trig = 0 /\ hist[k].n = 0

\* A walk over two files, one skipped and one uploaded without an id.
C7_Witness ==
    /\ entry = "upload_documents"
    /\ pc = "done"
    /\ processed_count = 2
    /\ skipped_count = 1
    /\ upload_failed_count = 0
    /\ uploaded_doc_ids = <<>>

\* C8: under skip_name, skip_content and replace, a file whose existence
\* query came back non-empty is never simply uploaded: under the skip policies
\* it is skipped without an upload and counted in skipped_count; under
\* replace it is counted in replaced_count, and when the answer carried a
\* document the delete request for the first one comes before the upload.
C8_MatchNeverAllow ==
    /\ \A i \in Files :
          /\ (fhist[i].listed > 0
                  /\ duplicate_handling \in {"skip_name", "skip_content"}) =>
                /\ fhist[i].skipped
                /\ ~fhist[i].attempted
                /\ ~Has(fhist[i].seq, "upload")
          /\ (fhist[i].nmatch > 0 /\ duplicate_handling = "replace"
                  /\ fhist[i].attempted) =>
                /\ ~fhist[i].skipped
                /\ Len(fhist[i].seq) >= 2
                /\ fhist[i].seq[1] = "query"
                /\ fhist[i].seq[2] = "delete"
                /\ fhist[i].del_id # NoId
                /\ fhist[i].del_id = fhist[i].first_id
    /\ InWalk => skipped_count = Cardinality({i \in Files : fhist[i].skipped})
    /\ (InWalk /\ duplicate_handling = "replace") =>
          replaced_count = Cardinality({i \in Files : fhist[i].listed > 0})

\* Under replace a matched file was uploaded after its delete request.
C8_Witness ==
    \E i \in Files :
        /\ duplicate_handling = "replace"
        /\ fhist[i].nmatch > 0
        /\ fhist[i].success

\* C9: under allow no existence query is made, nothing is skipped or
\* deleted, and every eligible file gets an upload attempt, whatever the
\* store holds.
C9_AllowUploadsAll ==
    (duplicate_handling = "allow" /\ entry = "upload_documents") =>
        /\ skipped_count = 0
        /\ replaced_count = 0
        /\ \A i \in 1..Len(pre_store) : Has(store, pre_store[i])
        /\ \A i \in Files :
              /\ ~Has(fhist[i].seq, "query")
              /\ ~Has(fhist[i].seq, "delete")
              /\ ~fhist[i].skipped
              /\ (i < Len(fhist) \/ pc = "walked") => fhist[i].attempted
        /\ pc = "walked" => Len(fhist) = EligibleCount

\* Under allow two files were uploaded into a store that held one of the names.
C9_Witness ==
    /\ duplicate_handling = "allow"
    /\ pc = "walked"
    /\ Len(pre_store) > 0
    /\ Len(fhist) = 2
    /\ \A i \in Files : fhist[i].created

FailedDocs == {k \in Docs : hist[k].outcome \in {"FAILED", "INDETERMINATE", "TRIGGER_FAILED"}}

\* C11: a document whose parse-trigger request failed is counted in
\* failed_count once (failed_count is the number of documents that ended
\* without success), no status query and no sleep is ever made for it, and the
\* documents after it are still triggered: when the call returns every
\* document of the batch has had its one trigger request.
C11_TriggerFailureSkipsPolling ==
    /\ \A k \in Docs :
          hist[k].outcome = "TRIGGER_FAILED" =>
              /\ hist[k].trig = 1
              /\ hist[k].n = 0
              /\ hist[k].sleeps = 0
              /\ hist[k].last = "none"
    /\ (pc \in {"trigger", "poll", "done"} /\ Len(hist) > 0) =>
          failed_count = Cardinality(FailedDocs)
    /\ (pc = "done" /\ Len(hist) > 0) => \A k \in Docs : hist[k].trig = 1

\* The first trigger failed, the second document was still parsed.
C11_Witness ==
    /\ pc = "done"
    /\ Len(hist) = 2
    /\ hist[1].outcome = "TRIGGER_FAILED"
    /\ hist[2].outcome = "SUCCESS"
    /\ failed_count = 1

\* C12: a status query that brings neither a success nor a failure status (a
\* status in progress or unknown, an empty answer, an error) leaves
\* failed_status_count, success_count and failed_count as they were, and the
\* loop goes on to sleep and query the same document again.
C12_InconclusiveKeepsPolling ==
    [][(/\ pc = "poll"
        /\ hist'[doc_index].n = hist[doc_index].n + 1
        /\ hist'[doc_index].last \in {"other", "none"})
       => (/\ failed_status_count' = failed_status_count
           /\ success_count' = success_count
           /\ failed_count' = failed_count
           /\ doc_index' = doc_index
           /\ pc' = "poll"
           /\ hist'[doc_index].outcome = "POLLING"
           /\ hist'[doc_index].sleeps = hist[doc_index].sleeps + 1)]_vars

\* Two inconclusive reports in a row with a failure counted before them: the
\* document is still being polled and the counter has not moved.
C12_Witness ==
    /\ pc = "poll"
    /\ hist[doc_index].n = 3
    /\ hist[doc_index].fail = 1
    /\ hist[doc_index].last \in {"other", "none"}
    /\ hist[doc_index].sleeps = 3
    /\ failed_status_count = 1
    /\ max_retries = 2

\* C13: whenever upload_document_to_dataset is called with an invalid dataset
\* reference, for a file that is missing or cannot be read, or the store
\* rejects the submission, it returns (False, '') and no exception leaves it:
\* no id is reported, and none reaches uploaded_doc_ids.
C13_UploadFailureIsFalseEmpty ==
    \A i \in Files :
        (fhist[i].attempted /\ fhist[i].cause # "none") =>
            /\ ~fhist[i].success
            /\ fhist[i].ret_id = NoId
            /\ ~fhist[i].raised
            /\ fhist[i].slot = 0
            /\ ~fhist[i].created

\* A direct call whose submission the store rejected.
C13_Witness ==
    /\ entry = "upload_document_to_dataset"
    /\ pc = "done"
    /\ fhist[1].cause = "rejected"
    /\ fhist[1].seq = <<"upload">>
    /\ ~fhist[1].success
    /\ ~fhist[1].raised

\* Names of the folder's eligible files.
EligibleNames == {folder[i].name : i \in {j \in 1..Len(folder) : Eligible(folder[j])}}

\* C14: the folder walk of upload_documents handles every eligible file,
\* whatever fails on the way: while it runs processed_count is the number of
\* files taken up so far, every file left behind was either skipped or given
\* an upload attempt, and failed_count is the number of upload attempts that
\* failed; when it ends every eligible file of the folder has been handled.
C14_WalkNeverStopsEarly ==
    (entry = "upload_documents" /\ InWalk) =>
        /\ processed_count = Len(fhist)
        /\ \A i \in Files :
              (i < Len(fhist) \/ pc = "walked") =>
                  (fhist[i].skipped # fhist[i].attempted)
        /\ upload_failed_count =
              Cardinality({i \in Files : fhist[i].attempted /\ ~fhist[i].success})
        /\ pc = "walked" =>
              /\ processed_count = EligibleCount
              /\ {fhist[i].name : i \in Files} = EligibleNames

\* Under replace the first file's delete and upload both failed, the second
\* file's existence query failed, and the walk still handled both files.
C14_Witness ==
    /\ entry = "upload_documents"
    /\ pc = "walked"
    /\ duplicate_handling = "replace"
    /\ Len(fhist) = 2
    /\ fhist[1].del_id # NoId /\ ~fhist[1].del_ok
    /\ fhist[1].attempted /\ ~fhist[1].success
    /\ fhist[2].qfail /\ fhist[2].attempted
    /\ processed_count = 2
    /\ upload_failed_count >= 1

\* Ids of the documents the dataset held when the call began.
PreIds == {pre_store[i].id : i \in 1..Len(pre_store)}

\* C15: every id in uploaded_doc_ids is the id of a document created by an
\* upload of this call: none is the id of a document the dataset held before
\* the call, and no id occurs twice.
C15_OnlyNewIds ==
    entry = "upload_documents" =>
        /\ \A i \in 1..Len(uploaded_doc_ids) : uploaded_doc_ids[i] \notin PreIds
        /\ \A i, j \in 1..Len(uploaded_doc_ids) :
              i # j => uploaded_doc_ids[i] # uploaded_doc_ids[j]

\* C16: an upload that succeeded with an empty id is left out of the parse
\* stage: uploaded_doc_ids holds no empty id, a file whose upload returned
\* (True, '') has no place in it, and every document for which a parse trigger
\* or a status query is made has a non-empty id; in upload_documents these are
\* the ids of uploaded_doc_ids.
C16_EmptyIdNotParsed ==
    /\ \A i \in 1..Len(uploaded_doc_ids) : uploaded_doc_ids[i] # NoId
    /\ \A i \in Files :
          (fhist[i].success /\ fhist[i].ret_id = NoId) => fhist[i].slot = 0
    /\ \A i \in Files :
          fhist[i].slot > 0 =>
              /\ fhist[i].slot <= Len(uploaded_doc_ids)
              /\ uploaded_doc_ids[fhist[i].slot] = fhist[i].ret_id
    /\ \A k \in Docs : doc_ids[k] # NoId
    /\ (entry = "upload_documents" /\ Len(hist) > 0) => doc_ids = uploaded_doc_ids

\* The first upload succeeded without an id, the second with one: only the
\* second is in the list handed to the parse stage.
C16_Witness ==
    /\ entry = "upload_documents"
    /\ pc = "walked"
    /\ Len(fhist) = 2
    /\ fhist[1].success /\ fhist[1].ret_id = NoId /\ fhist[1].slot = 0
    /\ fhist[2].success /\ fhist[2].slot = 1
    /\ Len(uploaded_doc_ids) = 1
    /\ upload_failed_count = 0

\* Files the walk has finished with.
DoneFiles == {i \in Files : i < Len(fhist) \/ pc = "walked"}

\* C17: under replace, for a file whose existence query was answered with a
\* document, the delete request for that document is made right after the
\* query and before any upload request for the file, and the upload is
\* attempted whether the delete succeeded or not.
C17_DeleteBeforeUpload ==
    (entry = "upload_documents" /\ duplicate_handling = "replace") =>
        \A i \in Files :
            fhist[i].nmatch > 0 =>
                /\ \A p \in 1..Len(fhist[i].seq) :
                      fhist[i].seq[p] = "upload" =>
                          /\ p = 3
                          /\ fhist[i].seq[2] = "delete"
                          /\ fhist[i].seq[1] = "query"
                /\ (fhist[i].attempted \/ i \in DoneFiles) =>
                      /\ fhist[i].attempted
                      /\ ~fhist[i].skipped
                      /\ Len(fhist[i].seq) >= 2
                      /\ fhist[i].seq[2] = "delete"
                      /\ fhist[i].del_id = fhist[i].first_id

\* The delete failed and the file was uploaded all the same: the dataset now
\* holds the old document and the new one.
C17_Witness ==
    /\ entry = "upload_documents"
    /\ duplicate_handling = "replace"
    /\ Len(fhist) >= 1
    /\ fhist[1].nmatch > 0
    /\ fhist[1].del_id # NoId /\ ~fhist[1].del_ok
    /\ fhist[1].seq = <<"query", "delete", "upload", "lookup">>
    /\ fhist[1].created
    /\ Len(store) = 2

\* C18: under skip_name, skip_content and replace, a file whose existence
\* query failed (the store raised, or its answer was malformed) is handled as
\* a file without a match: it is not skipped, no delete is made for it, and
\* its upload is attempted.
C18_QueryFailureFailsOpen ==
    (entry = "upload_documents"
        /\ duplicate_handling \in {"skip_name", "skip_content", "replace"}) =>
        \A i \in Files :
            fhist[i].qfail =>
                /\ ~fhist[i].skipped
                /\ ~Has(fhist[i].seq, "delete")
                /\ i \in DoneFiles => fhist[i].attempted

\* C19: when the dataset reference is invalid or the folder does not exist,
\* upload_documents returns at once with an empty list: it never comes to a
\* point where it makes an existence query, a delete, an upload, a parse
\* trigger or a status query, no file is taken up, the parse stage is not
\* entered, and the dataset is left as it was.
C19_AbortsWithoutRequests ==
    (entry = "upload_documents" /\ (~dataset_ok \/ ~folder_ok)) =>
        /\ pc \in {"start", "done"}
        /\ uploaded_doc_ids = <<>>
        /\ processed_count = 0
        /\ fhist = <<>>
        /\ hist = <<>>
        /\ parse_success = <<>>
        /\ store = pre_store
        /\ next_id = Len(pre_store)

\* The call has returned for an invalid dataset reference, although the
\* folder holds two eligible files.
C19_Witness ==
    /\ entry = "upload_documents"
    /\ pc = "done"
    /\ ~dataset_ok
    /\ folder_ok
    /\ EligibleCount = 2
    /\ uploaded_doc_ids = <<>>

\* C20: polling is bounded: whatever the store reports, every triggered
\* document comes to a terminal outcome and parse_documents_in_dataset
\* eventually returns.
C20_PollingTerminates == <>(pc = "done")

C22_FreshQuery ==
    /\ []((entry = "upload_documents" /\ duplicate_handling # "allow") =>
            \A i \in Files :
                /\ i < Len(fhist) => fhist[i].skipped # fhist[i].attempted
                /\ Len(fhist[i].seq) > 0 => fhist[i].seq[1] = "query"
                /\ \A p \in 2..Len(fhist[i].seq) : fhist[i].seq[p] # "query"
                /\ fhist[i].answered => fhist[i].nmatch = fhist[i].stored
                /\ fhist[i].skipped <=>
                      (fhist[i].listed > 0
                          /\ duplicate_handling \in {"skip_name", "skip_content"})
                /\ Has(fhist[i].seq, "delete") <=>
                      (fhist[i].nmatch > 0 /\ duplicate_handling = "replace"
                          /\ Len(fhist[i].seq) >= 2))
    /\ [][\A i \in Files :
             (i < Len(fhist) /\ i \in DOMAIN fhist') => fhist'[i] = fhist[i]]_vars

\* The dataset was empty when the call began; the second file is skipped
\* because its query found the document the first file's upload had made.
C22_Witness ==
    /\ entry = "upload_documents"
    /\ duplicate_handling = "skip_name"
    /\ pre_store = <<>>
    /\ Len(fhist) = 2
    /\ fhist[1].created
    /\ fhist[2].answered /\ fhist[2].nmatch = 1 /\ fhist[2].stored = 1
    /\ fhist[2].skipped

\* Positions of the lookup's answer for file i whose name is the file's name.
ExactAt(i) == {p \in 1..Len(fhist[i].lookup) : fhist[i].lookup[p].name = fhist[i].name}

\* C23: after a submission the store accepted, upload_document_to_dataset
\* returns success, with the id of the first document of the lookup's answer
\* whose name is the file's name, or else the id of the first document of the
\* answer, or the empty string when the answer is empty or the lookup raised.
C23_LookupId ==
    \A i \in Files :
        (fhist[i].attempted /\ fhist[i].cause = "none") =>
            /\ fhist[i].success
            /\ ~fhist[i].raised
            /\ fhist[i].ret_id =
                  IF fhist[i].lk_fail \/ Len(fhist[i].lookup) = 0 THEN NoId
                  ELSE IF ExactAt(i) # {}
                       THEN fhist[i].lookup[CHOOSE p \in ExactAt(i) :
                                               \A q \in ExactAt(i) : p <= q].id
                       ELSE fhist[i].lookup[1].id

\* The lookup answered with two documents, the second of them named like the
\* file: its id is the one returned.
C23_Witness ==
    \E i \in Files :
        /\ fhist[i].success
        /\ Len(fhist[i].lookup) = 2
        /\ ExactAt(i) = {2}
        /\ fhist[i].ret_id = fhist[i].lookup[2].id
        /\ fhist[i].ret_id # fhist[i].lookup[1].id

\* C24: at the end of the folder walk the counts of the summary add up:
\* processed = uploaded + skipped + failed, where uploaded is the number the
\* summary reports, the length of uploaded_doc_ids.
C24_CountsAddUp ==
    (entry = "upload_documents" /\ pc = "walked") =>
        processed_count = Len(uploaded_doc_ids) + skipped_count + upload_failed_count

\* C25: parse status is only read.  Each document of the batch gets at most
\* one parse-trigger request, naming its id, and has had exactly one when it
\* is polled or finished; every status query for it names its id; and a step
\* of the poll loop, whatever it reports, makes no trigger request and no
\* upload or delete: the dataset and the id list stay as they are.
C25_StatusOnlyObserved ==
    /\ [](\A k \in Docs :
            /\ hist[k].trig <= 1
            /\ hist[k].trig = 1 => hist[k].tid = doc_ids[k]
            /\ hist[k].n > 0 => hist[k].qid = doc_ids[k]
            /\ hist[k].outcome # "PENDING" => hist[k].trig = 1
            /\ hist[k].outcome = "PENDING" => hist[k].trig = 0 /\ hist[k].n = 0)
    /\ [][pc = "poll" =>
             /\ store' = store
             /\ next_id' = next_id
             /\ uploaded_doc_ids' = uploaded_doc_ids
             /\ doc_ids' = doc_ids
             /\ \A k \in Docs : hist'[k].trig = hist[k].trig]_vars

\* A document reported as failed once and then polled again, with its one
\* trigger request still the only one.
C25_Witness ==
    /\ pc = "poll"
    /\ max_retries = 2
    /\ hist[doc_index].fail = 1
    /\ hist[doc_index].n = 2
    /\ hist[doc_index].trig = 1
    /\ hist[doc_index].tid = doc_ids[doc_index]
    /\ hist[doc_index].qid = doc_ids[doc_index]

\* Documents the dataset held when the call began and holds no more.
Gone == {i \in 1..Len(pre_store) :
            \A j \in 1..Len(store) : store[j].id # pre_store[i].id}

\* C26: a delete request is made only under replace, only for a file whose
\* existence query was answered with a document, at most once per file, right
\* after the query, and for the first document of that answer; under every
\* other policy no delete is made and the dataset loses nothing.  Under
\* replace a document only leaves the dataset by such a delete.
C26_DeleteOnlyUnderReplace ==
    entry = "upload_documents" =>
        /\ \A i \in Files :
              /\ Cardinality({p \in 1..Len(fhist[i].seq) :
                                  fhist[i].seq[p] = "delete"}) <= 1
              /\ Has(fhist[i].seq, "delete") =>
                    /\ duplicate_handling = "replace"
                    /\ fhist[i].seq[1] = "query"
                    /\ fhist[i].seq[2] = "delete"
                    /\ fhist[i].nmatch > 0
                    /\ fhist[i].del_id # NoId
                    /\ fhist[i].del_id = fhist[i].first_id
        /\ duplicate_handling # "replace" => (pc # "delete" /\ Gone = {})
        /\ InWalk =>
              \A g \in Gone :
                  \E i \in Files :
                      fhist[i].del_ok /\ fhist[i].del_id = pre_store[g].id

\* Under replace the document the dataset held was deleted and the file
\* uploaded in its place.
C26_Witness ==
    /\ entry = "upload_documents"
    /\ duplicate_handling = "replace"
    /\ Len(fhist) >= 1
    /\ fhist[1].seq = <<"query", "delete", "upload", "lookup">>
    /\ fhist[1].del_ok
    /\ fhist[1].del_id = "d1"
    /\ Gone = {1}
    /\ Len(store) = 1

\* The ids parse_documents_in_dataset was given, and how many are not empty.
GivenIds == IF entry = "upload_documents" THEN uploaded_doc_ids ELSE arg_doc_ids

NonEmptyGiven == Cardinality({i \in 1..Len(GivenIds) : GivenIds[i] # NoId})

\* C27: in a call of parse_documents_in_dataset that gets as far as its
\* counters, every non-empty id is counted once: while it runs success_count
\* is the number of documents that reached SUCCESS and failed_count the number
\* that ended otherwise, when it returns their sum is the number of non-empty
\* ids given, and no step lowers either counter or raises the sum by more
\* than one.
C27_EveryIdCountedOnce ==
    /\ [](Len(hist) > 0 =>
            /\ success_count = Cardinality({k \in Docs : hist[k].outcome = "SUCCESS"})
            /\ failed_count = Cardinality(FailedDocs)
            /\ Len(hist) = NonEmptyGiven
            /\ pc = "done" => success_count + failed_count = NonEmptyGiven)
    /\ [][/\ success_count' >= success_count
           /\ failed_count' >= failed_count
           /\ success_count' + failed_count' <= success_count + failed_count + 1]_vars

\* Of two ids given one was empty; the other was parsed and counted.
C27_Witness ==
    /\ entry = "parse_documents_in_dataset"
    /\ pc = "done"
    /\ Len(arg_doc_ids) = 2
    /\ NonEmptyGiven = 1
    /\ success_count = 1
    /\ failed_count = 0

Blocking(k) ==
    /\ max_retries >= 1
    /\ hist[k].trig = 1
    /\ hist[k].outcome # "TRIGGER_FAILED"
    /\ hist[k].succ = 0
    /\ hist[k].fail < max_retries

NamedPolicies == {"skip_name", "skip_content", "replace", "allow"}

\* C30: with a duplicate_handling value that is none of the four named ones
\* upload_documents runs: it makes the existence query for every file and
\* then uploads the file, match or not, without a skip and without a delete.
C30_UnknownPolicyUploads ==
    (entry = "upload_documents" /\ duplicate_handling \notin NamedPolicies) =>
        /\ \A i \in Files :
              /\ Len(fhist[i].seq) > 0 => fhist[i].seq[1] = "query"
              /\ ~fhist[i].skipped
              /\ ~Has(fhist[i].seq, "delete")
              /\ i \in DoneFiles =>
                    /\ fhist[i].attempted
                    /\ Has(fhist[i].seq, "query")
        /\ (EntryOk /\ EligibleCount > 0 /\ pc # "start") => processed_count > 0
        /\ skipped_count = 0
        /\ replaced_count = 0
        /\ pc # "delete"
        /\ Gone = {}

\* Under the value 'overwrite' the query found the document the dataset
\* held, and the file was uploaded next to it.
C30_Witness ==
    /\ entry = "upload_documents"
    /\ duplicate_handling = "overwrite"
    /\ Len(fhist) >= 1
    /\ fhist[1].nmatch > 0
    /\ fhist[1].listed > 0
    /\ fhist[1].seq = <<"query", "upload", "lookup">>
    /\ fhist[1].created
    /\ Len(store) = 2

====
